---- MODULE Spec2Model ----
(***************************************************************************)
(* HashLife universe of src/src/hashlife.rs with the wasm wrapper of       *)
(* src/src/wasm.rs.                                                        *)
(*                                                                         *)
(* An Rc<Node> is an index into `heap` (the allocations, never freed while *)
(* the cache lives); a pointer comparison is an index comparison.          *)
(* A NodeCache value is the record [heap, leaves, inner_cache].            *)
(* Operations that take `&mut self` return the cache (or universe) they    *)
(* leave behind together with their result.                                *)
(***************************************************************************)
EXTENDS Integers, Sequences, FiniteSets, TLC

\* ------------------------------------------------------------------ bounds
\* Width of the signed coordinate type. The code uses i64; the model keeps
\* two's complement arithmetic of CoordBits bits, so 1 << level overflows at
\* level CoordBits - 1 exactly as 1i64 << 63 does.
CoordBits == 7
\* Number of wasm calls made after construction.
MaxOps == 2
\* Number of steps taken on a universe that is only stepped.
MaxSteps == 6
\* Self-calls of set_cell followed before the call is reported as not
\* returning.
MaxRecursion == 8
\* calls of next_generation_single made on one universe (SpecEvolve)
MaxEvolves == 1

\* ---------------------------------------------------------- integer types
\* level: u8 (hashlife.rs:9), `as u8` (hashlife.rs:155)
U8Mod == 256

CoordMod == 2 ^ CoordBits
CoordMin == -(2 ^ (CoordBits - 1))
CoordMax == 2 ^ (CoordBits - 1) - 1

\* two's complement wrap-around of a CoordBits-bit signed integer
wrap(v) == ((v - CoordMin) % CoordMod) + CoordMin

\* 1i64 << n in a release build: the shift amount is masked to the width
shl1(n) == wrap(2 ^ (n % CoordBits))

\* a / 2 of Rust: truncates toward zero
half(a) == IF a >= 0 THEN a \div 2 ELSE -((-a) \div 2)

\* --------------------------------------------------------------- Node
Node_leaf(alive) ==
    [level |-> 0,
     population |-> IF alive THEN 1 ELSE 0,
     leaf |-> TRUE, alive |-> alive,
     nw |-> 0, ne |-> 0, sw |-> 0, se |-> 0]

\* Node::inner with the population of se left out of the sum
Node_inner_dropse(h, nw, ne, sw, se) ==
    [level |-> (h[nw].level + 1) % U8Mod,
     population |-> h[nw].population + h[ne].population + h[sw].population,
     leaf |-> FALSE, alive |-> FALSE,
     nw |-> nw, ne |-> ne, sw |-> sw, se |-> se]

Node_inner(h, nw, ne, sw, se) ==
    [level |-> (h[nw].level + 1) % U8Mod,
     population |-> h[nw].population + h[ne].population
                    + h[sw].population + h[se].population,
     leaf |-> FALSE, alive |-> FALSE,
     nw |-> nw, ne |-> ne, sw |-> sw, se |-> se]

is_alive(h, n) == h[n].leaf /\ h[n].alive

\* --------------------------------------------------------------- NodeCache
NodeCache_new ==
    [heap |-> <<Node_leaf(FALSE), Node_leaf(TRUE)>>,
     leaves |-> <<1, 2>>,
     inner_cache |-> [k \in {} |-> 0]]

get_leaf(c, alive) == c.leaves[IF alive THEN 2 ELSE 1]

\* get_inner that allocates without looking the children up
get_inner_fresh(c, nw, ne, sw, se) ==
    LET key == <<nw, ne, sw, se>>
        id == Len(c.heap) + 1
    IN  [c |-> [c EXCEPT
                  !.heap = Append(@, Node_inner(c.heap, nw, ne, sw, se)),
                  !.inner_cache = (key :> id) @@ @],
         n |-> id]

get_inner(c, nw, ne, sw, se) ==
    LET key == <<nw, ne, sw, se>>
    IN  IF key \in DOMAIN c.inner_cache
        THEN [c |-> c, n |-> c.inner_cache[key]]
        ELSE LET id == Len(c.heap) + 1
             IN  [c |-> [c EXCEPT
                           !.heap = Append(@, Node_inner(c.heap, nw, ne, sw, se)),
                           !.inner_cache = (key :> id) @@ @],
                  n |-> id]

RECURSIVE get_empty(_, _)
get_empty(c, level) ==
    IF level = 0
    THEN [c |-> c, n |-> get_leaf(c, FALSE)]
    ELSE LET sub == get_empty(c, level - 1)
         IN  get_inner(sub.c, sub.n, sub.n, sub.n, sub.n)

\* --------------------------------------------------------------- state
VARIABLES
    cache,       \* Universe.cache, with the Rc<Node> allocations it keeps alive
    root,        \* Universe.root
    generation,  \* Universe.generation
    size_level,  \* WasmUniverse.size_level
    status,      \* "ok", "panicked" (a panic unwound out of the call) or
                 \* "running" (the call has not returned)
    build,       \* "debug" (overflow checks on) or "release" (wrap-around)
    op,          \* the last call made: [name, x, y, alive]
    ret,         \* what that call returned (<<>> when it returns nothing)
    pre,         \* the universe as it was before that call
    nops         \* number of calls made

vars == <<cache, root, generation, size_level, status, build, op, ret, pre, nops>>

\* ------------------------------------------------------- Universe: cells
\* The value of a Universe: its three fields and how the call that
\* produced it ended.
Universe(c, r, g, st) == [cache |-> c, root |-> r, generation |-> g, status |-> st]

Universe_new(sl) ==
    LET level == (IF sl > 3 THEN sl ELSE 3) % U8Mod
        e == get_empty(NodeCache_new, level)
    IN  Universe(e.c, e.n, 0, "ok")

\* expand that puts the old quadrants in the outer corners
expand_misplaced(u) ==
    LET h == u.cache.heap
        r == h[u.root]
    IN  IF r.level = 0 \/ r.leaf
        THEN [u EXCEPT !.status = "panicked"]
        ELSE
        LET e == get_empty(u.cache, r.level - 1)
            a == get_inner(e.c, r.nw, e.n, e.n, e.n)
            b == get_inner(a.c, e.n, r.ne, e.n, e.n)
            c == get_inner(b.c, e.n, e.n, r.sw, e.n)
            d == get_inner(c.c, e.n, e.n, e.n, r.se)
            t == get_inner(d.c, a.n, b.n, c.n, d.n)
        IN  [u EXCEPT !.cache = t.c, !.root = t.n]

\* With a leaf root (level 0) the call panics: in a debug build at
\* `level - 1`, in a release build at unreachable!() after get_empty(255).
\* The empty nodes that get_empty(255) allocated before that panic are not
\* recorded: no call follows a panic.
expand(u) ==
    LET h == u.cache.heap
        r == h[u.root]
    IN  IF r.level = 0 \/ r.leaf
        THEN [u EXCEPT !.status = "panicked"]
        ELSE
        LET e == get_empty(u.cache, r.level - 1)
            a == get_inner(e.c, e.n, e.n, e.n, r.nw)
            b == get_inner(a.c, e.n, e.n, r.ne, e.n)
            c == get_inner(b.c, e.n, r.sw, e.n, e.n)
            d == get_inner(c.c, r.se, e.n, e.n, e.n)
            t == get_inner(d.c, a.n, b.n, c.n, d.n)
        IN  [u EXCEPT !.cache = t.c, !.root = t.n]

\* set_cell_recursive that toggles the leaf when asked to set it alive
RECURSIVE set_cell_recursive_toggle(_, _, _, _, _, _, _)
set_cell_recursive_toggle(c, node, x, y, alive, node_x, node_y) ==
    LET n == c.heap[node]
    IN  IF n.level = 0
        THEN [c |-> c, n |-> get_leaf(c, alive /\ ~is_alive(c.heap, node))]
        ELSE
        LET half_size == shl1(n.level - 1)
            mid_x == wrap(node_x + half_size)
            mid_y == wrap(node_y + half_size)
        IN  IF x < mid_x /\ y < mid_y
            THEN LET s == set_cell_recursive_toggle(c, n.nw, x, y, alive, node_x, node_y)
                 IN  get_inner(s.c, s.n, n.ne, n.sw, n.se)
            ELSE IF x >= mid_x /\ y < mid_y
            THEN LET s == set_cell_recursive_toggle(c, n.ne, x, y, alive, mid_x, node_y)
                 IN  get_inner(s.c, n.nw, s.n, n.sw, n.se)
            ELSE IF x < mid_x /\ y >= mid_y
            THEN LET s == set_cell_recursive_toggle(c, n.sw, x, y, alive, node_x, mid_y)
                 IN  get_inner(s.c, n.nw, n.ne, s.n, n.se)
            ELSE LET s == set_cell_recursive_toggle(c, n.se, x, y, alive, mid_x, mid_y)
                 IN  get_inner(s.c, n.nw, n.ne, n.sw, s.n)

RECURSIVE set_cell_recursive(_, _, _, _, _, _, _)
set_cell_recursive(c, node, x, y, alive, node_x, node_y) ==
    LET n == c.heap[node]
    IN  IF n.level = 0
        THEN [c |-> c, n |-> get_leaf(c, alive)]
        ELSE
        LET half_size == shl1(n.level - 1)
            mid_x == wrap(node_x + half_size)
            mid_y == wrap(node_y + half_size)
        IN  IF x < mid_x /\ y < mid_y
            THEN LET s == set_cell_recursive(c, n.nw, x, y, alive, node_x, node_y)
                 IN  get_inner(s.c, s.n, n.ne, n.sw, n.se)
            ELSE IF x >= mid_x /\ y < mid_y
            THEN LET s == set_cell_recursive(c, n.ne, x, y, alive, mid_x, node_y)
                 IN  get_inner(s.c, n.nw, s.n, n.sw, n.se)
            ELSE IF x < mid_x /\ y >= mid_y
            THEN LET s == set_cell_recursive(c, n.sw, x, y, alive, node_x, mid_y)
                 IN  get_inner(s.c, n.nw, n.ne, s.n, n.se)
            ELSE LET s == set_cell_recursive(c, n.se, x, y, alive, mid_x, mid_y)
                 IN  get_inner(s.c, n.nw, n.ne, n.sw, s.n)

\* set_cell calls itself after each expand; `fuel` counts the self-calls
\* still followed.
RECURSIVE set_cell_from(_, _, _, _, _)
set_cell_from(u, x, y, alive, fuel) ==
    LET level == u.cache.heap[u.root].level
    IN  IF build = "debug" /\ level >= CoordBits
        THEN [u EXCEPT !.status = "panicked"]     \* shift left with overflow
        ELSE
        LET size == shl1(level)
            half_size == half(size)
        IN  IF x < -half_size \/ x >= half_size \/ y < -half_size \/ y >= half_size
            THEN LET e == expand(u)
                 IN  IF e.status # "ok" THEN e
                     ELSE IF fuel = 0 THEN [e EXCEPT !.status = "running"]
                     ELSE set_cell_from(e, x, y, alive, fuel - 1)
            ELSE LET s == set_cell_recursive(u.cache, u.root, x, y, alive,
                                             -half_size, -half_size)
                 IN  [u EXCEPT !.cache = s.c, !.root = s.n]

\* set_cell that takes the last column and row of the window for outside
RECURSIVE set_cell_from_eager(_, _, _, _, _)
set_cell_from_eager(u, x, y, alive, fuel) ==
    LET level == u.cache.heap[u.root].level
    IN  IF build = "debug" /\ level >= CoordBits
        THEN [u EXCEPT !.status = "panicked"]
        ELSE
        LET size == shl1(level)
            half_size == half(size)
        IN  IF x < -half_size \/ x >= half_size - 1 \/ y < -half_size \/ y >= half_size - 1
            THEN LET e == expand(u)
                 IN  IF e.status # "ok" THEN e
                     ELSE IF fuel = 0 THEN [e EXCEPT !.status = "running"]
                     ELSE set_cell_from_eager(e, x, y, alive, fuel - 1)
            ELSE LET s == set_cell_recursive(u.cache, u.root, x, y, alive,
                                             -half_size, -half_size)
                 IN  [u EXCEPT !.cache = s.c, !.root = s.n]

set_cell_eager(u, x, y, alive) == set_cell_from_eager(u, x, y, alive, MaxRecursion)

set_cell(u, x, y, alive) == set_cell_from(u, x, y, alive, MaxRecursion)

RECURSIVE get_cell_recursive(_, _, _, _, _, _)
get_cell_recursive(h, node, x, y, node_x, node_y) ==
    LET n == h[node]
    IN  IF n.level = 0
        THEN is_alive(h, node)
        ELSE
        LET half_size == shl1(n.level - 1)
            mid_x == wrap(node_x + half_size)
            mid_y == wrap(node_y + half_size)
        IN  IF x < mid_x /\ y < mid_y
            THEN get_cell_recursive(h, n.nw, x, y, node_x, node_y)
            ELSE IF x >= mid_x /\ y < mid_y
            THEN get_cell_recursive(h, n.ne, x, y, mid_x, node_y)
            ELSE IF x < mid_x /\ y >= mid_y
            THEN get_cell_recursive(h, n.sw, x, y, node_x, mid_y)
            ELSE get_cell_recursive(h, n.se, x, y, mid_x, mid_y)

get_cell(u, x, y) ==
    LET size == shl1(u.cache.heap[u.root].level)
        half_size == half(size)
    IN  IF x < -half_size \/ x >= half_size \/ y < -half_size \/ y >= half_size
        THEN FALSE
        ELSE get_cell_recursive(u.cache.heap, u.root, x, y, -half_size, -half_size)

population(u) == u.cache.heap[u.root].population

\* --------------------------------------------------- Universe: evolution
RECURSIVE extract_2x2(_, _, _, _, _)
extract_2x2(h, node, cells, offset_x, offset_y) ==
    LET n == h[node]
    IN  IF n.level = 0
        THEN [cells EXCEPT ![offset_y][offset_x] = is_alive(h, node)]
        ELSE
        LET c1 == extract_2x2(h, n.nw, cells, offset_x, offset_y)
            c2 == extract_2x2(h, n.ne, c1, offset_x + 1, offset_y)
            c3 == extract_2x2(h, n.sw, c2, offset_x, offset_y + 1)
        IN  extract_2x2(h, n.se, c3, offset_x + 1, offset_y + 1)

count_neighbors_array(cells, x, y) ==
    Cardinality({d \in (-1 .. 1) \X (-1 .. 1) :
        /\ ~(d[1] = 0 /\ d[2] = 0)
        /\ LET nx == x + d[1]
               ny == y + d[2]
           IN  nx >= 0 /\ nx < 4 /\ ny >= 0 /\ ny < 4 /\ cells[ny][nx]})

\* match (cells[cy][cx], neighbors) of compute_level2
rule(alive, neighbors) ==
    \/ alive /\ neighbors = 2
    \/ alive /\ neighbors = 3
    \/ ~alive /\ neighbors = 3

\* the 16 cells of a level-2 node (compute_level2, "Extract 16 cells")
level2_cells(h, n) ==
    LET z == [y \in 0 .. 3 |-> [x \in 0 .. 3 |-> FALSE]]
        c1 == extract_2x2(h, n.nw, z, 0, 0)
        c2 == extract_2x2(h, n.ne, c1, 2, 0)
        c3 == extract_2x2(h, n.sw, c2, 0, 2)
    IN  extract_2x2(h, n.se, c3, 2, 2)

\* Conway's rules on the center 2x2 of the grid
level2_result(cells) ==
    [y \in 0 .. 1 |-> [x \in 0 .. 1 |->
        rule(cells[y + 1][x + 1], count_neighbors_array(cells, x + 1, y + 1))]]

\* the level-1 node of the four resulting cells
level2_node(c, result) ==
    get_inner(c, get_leaf(c, result[0][0]), get_leaf(c, result[0][1]),
                 get_leaf(c, result[1][0]), get_leaf(c, result[1][1]))

compute_level2(c, node) ==
    level2_node(c, level2_result(level2_cells(c.heap, c.heap[node])))

center_node(c, node) ==
    LET h == c.heap
        n == h[node]
    IN  get_inner(c, h[n.nw].se, h[n.ne].sw, h[n.sw].ne, h[n.se].nw)

center_subnode_horizontal(c, left, right) ==
    LET h == c.heap
    IN  get_inner(c, h[left].ne, h[right].nw, h[left].se, h[right].sw)

center_subnode_vertical(c, top, bottom) ==
    LET h == c.heap
    IN  get_inner(c, h[top].sw, h[top].se, h[bottom].nw, h[bottom].ne)

\* The five recomposed sub-regions of an inner node n, made in the order the
\* code makes them: <<center_nw_ne, center_nw_sw, center_ne_se, center_sw_se,
\* center>>.
centers(c, node, n) ==
    LET center_nw_ne == center_subnode_horizontal(c, n.nw, n.ne)
        center_nw_sw == center_subnode_vertical(center_nw_ne.c, n.nw, n.sw)
        center_ne_se == center_subnode_vertical(center_nw_sw.c, n.ne, n.se)
        center_sw_se == center_subnode_horizontal(center_ne_se.c, n.sw, n.se)
        center == center_node(center_sw_se.c, node)
    IN  [c |-> center.c,
         n |-> <<center_nw_ne.n, center_nw_sw.n, center_ne_se.n,
                 center_sw_se.n, center.n>>]

\* assemble that takes the north-west result quadrant's first two parts
\* from the wrong sides of n00 and n01
assemble_swapped(c, h, r) ==
    LET result_nw == get_inner(c, h[r[1]].sw, h[r[2]].se, h[r[4]].ne, h[r[5]].nw)
        result_ne == get_inner(result_nw.c, h[r[2]].se, h[r[3]].sw, h[r[5]].ne, h[r[6]].nw)
        result_sw == get_inner(result_ne.c, h[r[4]].se, h[r[5]].sw, h[r[7]].ne, h[r[8]].nw)
        result_se == get_inner(result_sw.c, h[r[5]].se, h[r[6]].sw, h[r[8]].ne, h[r[9]].nw)
    IN  get_inner(result_se.c, result_nw.n, result_ne.n, result_sw.n, result_se.n)

\* The four result quadrants and the result node, from the nine results
\* r = <<n00, n01, n02, n10, n11, n12, n20, n21, n22>> (h is the heap after
\* the last of them).
assemble(c, h, r) ==
    LET result_nw == get_inner(c, h[r[1]].se, h[r[2]].sw, h[r[4]].ne, h[r[5]].nw)
        result_ne == get_inner(result_nw.c, h[r[2]].se, h[r[3]].sw, h[r[5]].ne, h[r[6]].nw)
        result_sw == get_inner(result_ne.c, h[r[4]].se, h[r[5]].sw, h[r[7]].ne, h[r[8]].nw)
        result_se == get_inner(result_sw.c, h[r[5]].se, h[r[6]].sw, h[r[8]].ne, h[r[9]].nw)
    IN  get_inner(result_se.c, result_nw.n, result_ne.n, result_sw.n, result_se.n)

RECURSIVE next_generation_single(_, _)
\* the nine recursive calls on the regions s (a tuple, in call order)
evolve9(c, s) ==
    LET n00 == next_generation_single(c, s[1])
        n01 == next_generation_single(n00.c, s[2])
        n02 == next_generation_single(n01.c, s[3])
        n10 == next_generation_single(n02.c, s[4])
        n11 == next_generation_single(n10.c, s[5])
        n12 == next_generation_single(n11.c, s[6])
        n20 == next_generation_single(n12.c, s[7])
        n21 == next_generation_single(n20.c, s[8])
        n22 == next_generation_single(n21.c, s[9])
    IN  <<n00, n01, n02, n10, n11, n12, n20, n21, n22>>

\* the regions in the order of the recursive calls
regions(n, ctr) ==
    <<n.nw, ctr[1], n.ne, ctr[2], ctr[5], ctr[3], n.sw, ctr[4], n.se>>

assemble9(r) ==
    assemble(r[9].c, r[9].c.heap, [i \in 1 .. 9 |-> r[i].n])

evolve_inner(n, ctr) == assemble9(evolve9(ctr.c, regions(n, ctr.n)))

next_generation_single(c, node) ==
    IF c.heap[node].level = 2
    THEN compute_level2(c, node)
    ELSE evolve_inner(c.heap[node], centers(c, node, c.heap[node]))

\* embed that leaves the generation counter alone
embed_noinc(u, c, border, res) ==
    LET new_nw == get_inner(c, border, border, border, res.nw)
        new_ne == get_inner(new_nw.c, border, border, res.ne, border)
        new_sw == get_inner(new_ne.c, border, res.sw, border, border)
        new_se == get_inner(new_sw.c, res.se, border, border, border)
        t == get_inner(new_se.c, new_nw.n, new_ne.n, new_sw.n, new_se.n)
    IN  [u EXCEPT !.cache = t.c, !.root = t.n]

\* step, "Build new quadrants ... by adding borders"
embed(u, c, border, res) ==
    LET new_nw == get_inner(c, border, border, border, res.nw)
        new_ne == get_inner(new_nw.c, border, border, res.ne, border)
        new_sw == get_inner(new_ne.c, border, res.sw, border, border)
        new_se == get_inner(new_sw.c, res.se, border, border, border)
        t == get_inner(new_se.c, new_nw.n, new_ne.n, new_sw.n, new_se.n)
    IN  [u EXCEPT !.cache = t.c, !.root = t.n, !.generation = @ + 1]

embed_border(u, border, res) == embed(u, border.c, border.n, res)

embed_result(u, result) ==
    embed_border(u, get_empty(result.c, result.c.heap[result.n].level - 1),
                 result.c.heap[result.n])

\* step whose early return forgets the generation counter
RECURSIVE step_noinc(_)
step_noinc(u) ==
    LET r == u.cache.heap[u.root]
    IN  IF r.level < 3
        THEN IF r.population = 0
             THEN u
             ELSE LET e == expand(u)
                  IN  IF e.status # "ok" THEN e ELSE step_noinc(e)
        ELSE embed_result(u, next_generation_single(u.cache, u.root))

RECURSIVE step(_)
step(u) ==
    LET r == u.cache.heap[u.root]
    IN  IF r.level < 3
        THEN IF r.population = 0
             THEN [u EXCEPT !.generation = @ + 1]
             ELSE LET e == expand(u)
                  IN  IF e.status # "ok" THEN e ELSE step(e)
        ELSE embed_result(u, next_generation_single(u.cache, u.root))

\* The nodes next_generation_single is entered with during the call
\* next_generation_single(c, node), in call order: the node itself, then,
\* above level 2, the calls made for the nine regions, each with the cache
\* the calls before it leave.
RECURSIVE evolve_calls(_, _)
RECURSIVE calls_from(_, _, _)
calls_from(c, s, i) ==
    IF i > Len(s) THEN <<>>
    ELSE evolve_calls(c, s[i])
             \o calls_from(next_generation_single(c, s[i]).c, s, i + 1)

calls_inner(n, ctr) == calls_from(ctr.c, regions(n, ctr.n), 1)

evolve_calls(c, node) ==
    <<node>> \o (IF c.heap[node].level = 2 THEN <<>>
                 ELSE calls_inner(c.heap[node], centers(c, node, c.heap[node])))

\* The universe step hands to next_generation_single: the state after the
\* loop `while self.root.level < 3`. The early return of that loop (a small
\* empty root) evolves nothing, see step_evolves.
RECURSIVE step_root(_)
step_root(u) ==
    LET r == u.cache.heap[u.root]
    IN  IF r.level < 3 /\ r.population # 0
        THEN LET e == expand(u)
             IN  IF e.status # "ok" THEN e ELSE step_root(e)
        ELSE u

step_evolves(u) ==
    /\ step_root(u).status = "ok"
    /\ u.cache.heap[step_root(u).root].level >= 3

\* the calls one step() makes
step_calls(u) ==
    IF step_evolves(u)
    THEN evolve_calls(step_root(u).cache, step_root(u).root)
    ELSE <<>>

\* ------------------------------------------------------------ inputs
\* size_level values given to the constructor: below the minimum level, and
\* two values that do not fit the u8 level.
SizeLevels == {2, 256, 257}

\* size_level values of the universes that are only stepped
EmptySizeLevels == (0 .. 5) \cup {256, 257, 258}

Builds == {"debug", "release"}

\* The largest level whose window size 1 << level is representable
\* (62 for i64).
LevelCap == CoordBits - 2

\* A coordinate whose window needs level CoordBits - 1, where 1 << level
\* overflows (2^61 for i64).
WideX == 2 ^ (CoordBits - 3)

\* Coordinates written by the caller: a cell inside the centered half of a
\* level-3 window, its boundary coordinates -4 and 3, a cell two expansions
\* away, and the wide coordinate.
Coords == {<<1, 0>>, <<3, -4>>, <<-9, 3>>, <<WideX, 0>>}

\* Flat coordinate arrays given to set_cells: an L of three cells that
\* reaches outside the centered half of a level-3 window, and an array with
\* a dangling x.
CellLists == {<<1, 0, 2, 0, 1, 1>>, <<0, 0, 5>>}

\* Cells and rectangles read by the caller.
ReadCoords == {<<1, 0>>}
ReadRects == {<<-1, -1, 2, 1>>}

\* ------------------------------------------------------------ WasmUniverse
Cur == Universe(cache, root, generation, status)

\* A call returns: the universe it leaves, its return value, and the record
\* of the call.
Install(u, name, x, y, alive, r) ==
    /\ cache' = u.cache
    /\ root' = u.root
    /\ generation' = u.generation
    /\ status' = u.status
    /\ ret' = r
    /\ op' = [name |-> name, x |-> x, y |-> y, alive |-> alive]
    /\ pre' = Cur
    /\ nops' = nops + 1
    /\ UNCHANGED <<size_level, build>>

RECURSIVE set_cells(_, _, _)
set_cells(u, cells, i) ==
    IF i > Len(cells) \/ u.status # "ok"
    THEN u
    ELSE IF i + 1 <= Len(cells)
    THEN set_cells(set_cell(u, cells[i], cells[i + 1], TRUE), cells, i + 2)
    ELSE set_cells(u, cells, i + 2)

\* the cells of rows y_min..y_max, each row from x_min to x_max
RECURSIVE get_cells(_, _, _, _, _, _)
get_cells(u, x, y, x_min, x_max, y_max) ==
    IF y > y_max THEN <<>>
    ELSE IF x > x_max THEN get_cells(u, x_min, y + 1, x_min, x_max, y_max)
    ELSE (IF get_cell(u, x, y) THEN <<x, y>> ELSE <<>>)
         \o get_cells(u, x + 1, y, x_min, x_max, y_max)

InitWith(levels) ==
    /\ size_level \in levels
    /\ build \in Builds
    /\ LET u == Universe_new(size_level)
       IN  /\ cache = u.cache
           /\ root = u.root
           /\ generation = u.generation
           /\ status = u.status
           /\ pre = u
    /\ op = [name |-> "new", x |-> 0, y |-> 0, alive |-> FALSE]
    /\ ret = <<>>
    /\ nops = 0

Init == InitWith(SizeLevels)

Ready == status = "ok" /\ nops < MaxOps

SetCell(x, y, alive) ==
    /\ Ready
    /\ Install(set_cell(Cur, x, y, alive), "set_cell", x, y, alive, <<>>)

SetCells(cells) ==
    /\ Ready
    /\ Install(set_cells(Cur, cells, 1), "set_cells", Len(cells), 0, TRUE, <<>>)

GetCell(x, y) ==
    /\ Ready
    /\ Install(Cur, "get_cell", x, y, FALSE, <<get_cell(Cur, x, y)>>)

GetCells(x_min, y_min, x_max, y_max) ==
    /\ Ready
    /\ Install(Cur, "get_cells", x_min, y_min, FALSE,
               get_cells(Cur, x_min, y_min, x_min, x_max, y_max))

Step ==
    /\ Ready
    /\ Install(step(Cur), "step", 0, 0, FALSE, <<>>)

Clear ==
    /\ Ready
    /\ Install(Universe_new(size_level), "clear", 0, 0, FALSE, <<>>)

Next ==
    \/ \E c \in Coords, alive \in BOOLEAN : SetCell(c[1], c[2], alive)
    \/ \E cells \in CellLists : SetCells(cells)
    \/ \E c \in ReadCoords : GetCell(c[1], c[2])
    \/ \E r \in ReadRects : GetCells(r[1], r[2], r[3], r[4])
    \/ Step
    \/ Clear

Spec == Init /\ [][Next]_vars

\* Universes of every size that are only stepped.
InitEmpty == InitWith(EmptySizeLevels)

StepOnly ==
    /\ status = "ok"
    /\ generation < MaxSteps
    /\ Install(step(Cur), "step", 0, 0, FALSE, <<>>)

NextEmpty == StepOnly

SpecEmpty == InitEmpty /\ [][NextEmpty]_vars

\* ------------------------------------------- next_generation_single alone
\* The function applied to the nodes of universes that set_cell has filled.
EvolveLevels == {3, 4}

EvolveCells ==
    {<<-2, -2>>, <<-1, -1>>, <<0, -1>>, <<-1, 0>>, <<1, 1>>}

\* Universe::new(sl) followed by set_cell(x, y, true) for the cells of S
RECURSIVE Universe_with(_, _)
Universe_with(u, S) ==
    IF S = {} THEN u
    ELSE LET c == CHOOSE c \in S : TRUE
         IN  Universe_with(set_cell(u, c[1], c[2], TRUE), S \ {c})

InitEvolve ==
    /\ size_level \in EvolveLevels
    /\ build = "release"
    /\ \E S \in SUBSET EvolveCells :
          \E u \in {Universe_with(Universe_new(size_level), S)} :
              /\ cache = u.cache
              /\ root = u.root
              /\ generation = u.generation
              /\ status = u.status
              /\ pre = u
    /\ op = [name |-> "new", x |-> 0, y |-> 0, alive |-> FALSE]
    /\ ret = <<>>
    /\ nops = 0

\* one call next_generation_single(node) on a node of the cache; the call
\* leaves its new nodes in the cache and returns the result node
Evolve(node) ==
    /\ status = "ok"
    /\ nops < MaxEvolves
    /\ cache.heap[node].level >= 2
    /\ \E r \in {next_generation_single(cache, node)} :
          Install([Cur EXCEPT !.cache = r.c],
                  "next_generation_single", node, 0, FALSE, r.n)

NextEvolve == \E node \in 1 .. Len(cache.heap) : Evolve(node)

SpecEvolve == InitEvolve /\ [][NextEvolve]_vars

\* ------------------------------------------------- reference definitions
\* (what the claims compare the program with)
Level(u) == u.cache.heap[u.root].level

Max(a, b) == IF a >= b THEN a ELSE b

\* the coordinates of the centered window of a root of the given level
WindowOf(level) ==
    IF level = 0 THEN {} ELSE (-(2 ^ (level - 1))) .. (2 ^ (level - 1) - 1)

\* the coordinates for which get_cell answers true (it answers false outside
\* the window)
LiveCells(u) ==
    {c \in WindowOf(Level(u)) \X WindowOf(Level(u)) : get_cell(u, c[1], c[2])}

Nbrs(c) == {<<c[1] + d[1], c[2] + d[2]>> : d \in (-1 .. 1) \X (-1 .. 1)} \ {c}

\* the B3/S23 successor of a finite set of live cells on the unbounded plane
Conway(S) ==
    {c \in S \cup UNION {Nbrs(s) : s \in S} :
        LET k == Cardinality(Nbrs(c) \cap S)
        IN  \/ c \in S /\ k \in {2, 3}
            \/ c \notin S /\ k = 3}

\* the smallest level whose window holds (x, y)
Fits(L, x, y) ==
    IF L = 0 THEN x = 0 /\ y = 0
    ELSE /\ -(2 ^ (L - 1)) <= x /\ x < 2 ^ (L - 1)
         /\ -(2 ^ (L - 1)) <= y /\ y < 2 ^ (L - 1)

Lmin(x, y) ==
    CHOOSE L \in 0 .. CoordBits :
        Fits(L, x, y) /\ \A K \in 0 .. (L - 1) : ~Fits(K, x, y)

\* same level and same cell pattern
RECURSIVE StructEq(_, _, _)
StructEq(h, a, b) ==
    /\ h[a].level = h[b].level
    /\ h[a].leaf = h[b].leaf
    /\ IF h[a].leaf
       THEN h[a].alive = h[b].alive
       ELSE \/ <<h[a].nw, h[a].ne, h[a].sw, h[a].se>>
                = <<h[b].nw, h[b].ne, h[b].sw, h[b].se>>
            \/ /\ StructEq(h, h[a].nw, h[b].nw)
               /\ StructEq(h, h[a].ne, h[b].ne)
               /\ StructEq(h, h[a].sw, h[b].sw)
               /\ StructEq(h, h[a].se, h[b].se)

Returned == status = "ok"

\* ------------------------------------------------------------------ claims

\* C1: one call of step() makes the set of live cells the B3/S23 successor
\* of the set of live cells held just before the call, for live cells
\* anywhere in the root window.
C1_StepIsConway ==
    (op.name = "step" /\ Returned) => LiveCells(Cur) = Conway(LiveCells(pre))

\* C2: after set_cell(x, y, v), get_cell(x, y) = v and get_cell is unchanged
\* at every other coordinate of the window, also when the call expanded the
\* root and at the window's boundary coordinates.
C2_SetThenGet ==
    (op.name = "set_cell" /\ Returned) =>
        /\ get_cell(Cur, op.x, op.y) = op.alive
        /\ \A c \in (WindowOf(Level(Cur)) \cup WindowOf(Level(pre)))
                    \X (WindowOf(Level(Cur)) \cup WindowOf(Level(pre))) :
               c # <<op.x, op.y>> =>
                   get_cell(Cur, c[1], c[2]) = get_cell(pre, c[1], c[2])

\* a set_cell that expanded a populated root twice
C2_Witness ==
    /\ op.name = "set_cell" /\ Returned
    /\ population(pre) > 0
    /\ Level(Cur) >= Level(pre) + 2

\* C3: two nodes of the cache have the same level and cell pattern iff they
\* are the same allocation; every inner node is the node inner_cache holds
\* for its four children (so get_inner returns it again), and there is
\* exactly one dead leaf and one alive leaf.
C3_Canonical ==
    LET h == cache.heap
        ids == 1 .. Len(h)
        key(a) == <<h[a].nw, h[a].ne, h[a].sw, h[a].se>>
    IN  /\ \A a, b \in ids : StructEq(h, a, b) <=> a = b
        /\ \A a \in ids : ~h[a].leaf =>
               /\ key(a) \in DOMAIN cache.inner_cache
               /\ cache.inner_cache[key(a)] = a
               /\ get_inner(cache, h[a].nw, h[a].ne, h[a].sw, h[a].se)
                  = [c |-> cache, n |-> a]
        /\ \A k \in DOMAIN cache.inner_cache : key(cache.inner_cache[k]) = k
        /\ Cardinality({a \in ids : h[a].leaf /\ ~h[a].alive}) = 1
        /\ Cardinality({a \in ids : h[a].leaf /\ h[a].alive}) = 1
        /\ get_leaf(cache, FALSE) # get_leaf(cache, TRUE)

\* a step that allocated nodes and left live cells
C3_Witness ==
    /\ op.name = "step" /\ Returned
    /\ population(Cur) > 0
    /\ Len(cache.heap) > Len(pre.cache.heap)

\* C4: every node stores 0 or 1 as a leaf and the sum of its four children
\* as an inner node, and population() is the number of coordinates for which
\* get_cell answers true.
C4_Population ==
    LET h == cache.heap
    IN  /\ \A a \in 1 .. Len(h) :
               h[a].population =
                   IF h[a].leaf
                   THEN (IF h[a].alive THEN 1 ELSE 0)
                   ELSE h[h[a].nw].population + h[h[a].ne].population
                        + h[h[a].sw].population + h[h[a].se].population
        /\ Returned => population(Cur) = Cardinality(LiveCells(Cur))

\* a step that left at least two live cells
C4_Witness ==
    /\ op.name = "step" /\ Returned
    /\ population(Cur) >= 2

\* C5: set_cell(x, y, v) on a root of level L0 leaves the root at level
\* max(L0, Lmin(x, y)); an expand raises the level by exactly 1 and keeps
\* every stored cell at its coordinate.
C5_AutoExpand ==
    (op.name = "set_cell" /\ Returned) =>
        /\ Level(Cur) = Max(Level(pre), Lmin(op.x, op.y))
        /\ Level(Cur) > Level(pre) =>
               /\ expand(pre).status = "ok"
               /\ Level(expand(pre)) = Level(pre) + 1
               /\ LiveCells(expand(pre)) = LiveCells(pre)
               /\ LiveCells(Cur) \ {<<op.x, op.y>>} = LiveCells(pre)

\* a cell set two levels outside an empty root of level 3
C5_Witness ==
    /\ op.name = "set_cell" /\ Returned /\ op.alive
    /\ Level(pre) = 3 /\ population(pre) = 0
    /\ Level(Cur) = 5 /\ population(Cur) = 1

\* C6: Universe::new(size_level) creates an all-dead universe of level
\* max(size_level, 3) with population 0 and generation 0, so the root level
\* is at least 3 and the root is an inner node in every state.
C6_NewLevel ==
    /\ op.name \in {"new", "clear"} =>
           /\ Level(Cur) = Max(size_level, 3)
           /\ population(Cur) = 0
           /\ generation = 0
    /\ Level(Cur) >= 3
    /\ ~cache.heap[root].leaf

\* C7: the root level never exceeds the cap, and a set_cell whose coordinate
\* needs a level above the cap is rejected and leaves the root as it was.
C7_LevelCapped ==
    /\ Level(Cur) <= LevelCap
    /\ (op.name = "set_cell" /\ Lmin(op.x, op.y) > LevelCap) =>
           /\ status # "running"
           /\ root = pre.root
           /\ cache = pre.cache

\* C8: a second set_cell(x, y, v) right after the first leaves the same
\* universe: same root, level, population and generation, and no new cache
\* entry.
C8_Idempotent ==
    (op.name = "set_cell" /\ Returned) =>
        set_cell(Cur, op.x, op.y, op.alive) = Cur

\* a first call that expanded the root and set a cell alive
C8_Witness ==
    /\ op.name = "set_cell" /\ Returned /\ op.alive
    /\ Level(Cur) > Level(pre)
    /\ get_cell(Cur, op.x, op.y)

\* C9: n steps of an all-dead universe leave every cell dead, the root the
\* canonical empty node of the same level and generation n, and the node
\* cache does not grow after the first step.
C9_EmptyStaysEmpty ==
    /\ Returned
    /\ generation = nops
    /\ population(Cur) = 0
    /\ LiveCells(Cur) = {}
    /\ root = Universe_new(size_level).root
    /\ root = get_empty(cache, Level(Cur)).n
    /\ nops >= 2 => cache = pre.cache

\* three steps taken on an empty root of level 4 or more
C9_Witness ==
    /\ op.name = "step" /\ generation >= 3
    /\ Level(Cur) >= 4

\* C10: step adds exactly 1 to generation on every path; set_cell,
\* set_cells, get_cell and get_cells leave it unchanged; clear resets it to 0
\* with an all-dead root of the level the universe was created with.
C10_Generation ==
    /\ op.name = "step" => Returned /\ generation = pre.generation + 1
    /\ op.name \in {"set_cell", "set_cells", "get_cell", "get_cells"} =>
           generation = pre.generation
    /\ op.name = "clear" =>
           /\ Returned
           /\ generation = 0
           /\ population(Cur) = 0
           /\ LiveCells(Cur) = {}
           /\ Level(Cur) = Level(Universe_new(size_level))

\* two steps, the second one through the early return of a small empty root
C10_Witness ==
    /\ op.name = "step" /\ generation = 2
    /\ Level(pre) < 3 /\ population(pre) = 0

\* the population of the twelve outer level-(L-2) squares of the root: the
\* part of the window outside its centered half
BorderPopulation(u) ==
    LET h == u.cache.heap
        r == h[u.root]
    IN  r.population - (h[h[r.nw].se].population + h[h[r.ne].sw].population
                        + h[h[r.sw].ne].population + h[h[r.se].nw].population)

\* C11: whenever step() applies the evolution function to the root, the
\* root has level >= 3 and an empty border (every live cell lies in the
\* centered half of the window), so that re-embedding the centered result
\* with empty padding discards no live cell.
C11_StepPrecondition ==
    (op.name = "step" /\ step_evolves(pre)) =>
        /\ Level(step_root(pre)) >= 3
        /\ BorderPopulation(step_root(pre)) = 0
        /\ LiveCells(step_root(pre))
               \subseteq WindowOf(Level(step_root(pre)) - 1)
                         \X WindowOf(Level(step_root(pre)) - 1)

Range(f) == {f[i] : i \in DOMAIN f}

\* C12: evolution results are memoized by node identity: over the lifetime
\* of a universe the evolution function computes the result of a canonical
\* node at most once, so no node is evolved twice within one step and no
\* node evolved in one step is evolved again in the step after it.
C12_EvolvedOnce ==
    op.name = "step" =>
        /\ \A i, j \in DOMAIN step_calls(pre) :
               step_calls(pre)[i] = step_calls(pre)[j] => i = j
        /\ Range(step_calls(pre)) \cap Range(step_calls(Cur)) = {}

\* the live cells of a node, in coordinates 0 .. 2^level - 1 from its
\* north-west corner
NodeCells(h, node) ==
    {c \in (0 .. 2 ^ h[node].level - 1) \X (0 .. 2 ^ h[node].level - 1) :
        get_cell_recursive(h, node, c[1], c[2], 0, 0)}

\* the centered 2^(k-1) x 2^(k-1) square of a level-k node
CenterOf(k) == (2 ^ (k - 2) .. 3 * 2 ^ (k - 2) - 1) \X (2 ^ (k - 2) .. 3 * 2 ^ (k - 2) - 1)

\* C13: for every canonical node n of level k >= 2, next_generation_single(n)
\* returns a canonical node of level k-1 whose cells are exactly the B3/S23
\* successor of the centered 2^(k-1) x 2^(k-1) square of n, computed from
\* the cells inside n (rule on the inner 2x2 at level 2, assembly of the
\* nine sub-region results above it).
C13_NextGeneration ==
    op.name = "next_generation_single" =>
        LET k == pre.cache.heap[op.x].level
            h == cache.heap
        IN  /\ h[ret].level = k - 1
            /\ ~h[ret].leaf
            /\ \A m \in 1 .. Len(h) : StructEq(h, m, ret) => m = ret
            /\ \A m \in 1 .. Len(pre.cache.heap) : h[m] = pre.cache.heap[m]
            /\ NodeCells(h, ret)
                   = {<<c[1] - 2 ^ (k - 2), c[2] - 2 ^ (k - 2)>> :
                          c \in Conway(NodeCells(pre.cache.heap, op.x))
                                    \cap CenterOf(k)}

\* a level-3 node was evolved, with a birth and a death in its centered square
C13_Witness ==
    /\ op.name = "next_generation_single"
    /\ pre.cache.heap[op.x].level = 3
    /\ \E c \in CenterOf(3) :
           /\ c \notin NodeCells(pre.cache.heap, op.x)
           /\ <<c[1] - 2, c[2] - 2>> \in NodeCells(cache.heap, ret)
    /\ \E c \in CenterOf(3) :
           /\ c \in NodeCells(pre.cache.heap, op.x)
           /\ <<c[1] - 2, c[2] - 2>> \notin NodeCells(cache.heap, ret)

====
